---- MODULE Spec2Model ----
(***************************************************************************)
(* Model of src/main.py: the DSA_Prep_Pro tool server.  Four tool handlers  *)
(* (add_problem, get_revision_sheet, get_progress_stats,                   *)
(* save_revision_note) over one SQLite database with two tables, problems  *)
(* and notes.                                                              *)
(*                                                                         *)
(* Text values that the code inspects (topic, difficulty) are sequences of *)
(* one-character strings, so that str.capitalize and SQL LIKE are computed *)
(* character by character.  Values the code only stores (title, note       *)
(* topic, note content) are atoms.  A date is a day number; the text       *)
(* 'YYYY-MM-DD' of CURRENT_DATE compares as the day number does.           *)
(*                                                                         *)
(* Spec     : the handlers called one after another, each a whole call.     *)
(* SpecNotes: save_revision_note alone, called again and again.            *)
(* SpecConc : add_problem and get_progress_stats calls running             *)
(*            concurrently, each on its own connection, one step per       *)
(*            awaited database operation.                                  *)
(***************************************************************************)
EXTENDS Integers, Sequences, FiniteSets, TLC

VARIABLES problems,   \* committed rows of table problems, in rowid order
          seq,        \* sqlite_sequence entry of problems (AUTOINCREMENT)
          notes,      \* committed rows of table notes
          today,      \* the date of the database clock (CURRENT_DATE)
          lastCall,   \* sequential calls: the handler last called, whether the store failed
          result,     \* sequential calls: the value it returned
          lastSaved,  \* history: per note topic, content of its last successful save
          succeeded,  \* history: number of add_problem calls that returned success
          pc,         \* concurrent calls: position of each call
          call,       \* concurrent calls: handler and arguments of each call
          txn,        \* concurrent calls: uncommitted table image of a writer
          writer,     \* concurrent calls: the call holding the WAL write lock, if any
          part,       \* concurrent calls: difficulty_data read by the first query
          ret         \* concurrent calls: value returned by each call

vars == <<problems, seq, notes, today, lastCall, result, lastSaved, succeeded,
          pc, call, txn, writer, part, ret>>

seqVars == <<lastCall, result, lastSaved, succeeded>>
concVars == <<pc, call, txn, writer, part, ret>>

---------------------------------------------------------------------------
\* Bounds of the model

MaxProblems == 2
MaxDay == 2
NumProcs == 2

Days == 1..MaxDay
Procs == 1..NumProcs

---------------------------------------------------------------------------
\* Text

Lowers == <<"a","b","c","d","e","f","g","h","i","j","k","l","m",
            "n","o","p","q","r","s","t","u","v","w","x","y","z">>
Uppers == <<"A","B","C","D","E","F","G","H","I","J","K","L","M",
            "N","O","P","Q","R","S","T","U","V","W","X","Y","Z">>

ToLower(c) ==
    IF \E i \in 1..Len(Uppers) : Uppers[i] = c
    THEN Lowers[CHOOSE i \in 1..Len(Uppers) : Uppers[i] = c]
    ELSE c

ToUpper(c) ==
    IF \E i \in 1..Len(Lowers) : Lowers[i] = c
    THEN Uppers[CHOOSE i \in 1..Len(Lowers) : Lowers[i] = c]
    ELSE c

\* str.capitalize(): first character upper-cased, the rest lower-cased
Capitalize(s) ==
    [i \in 1..Len(s) |-> IF i = 1 THEN ToUpper(s[i]) ELSE ToLower(s[i])]

\* SQLite's LIKE: % matches any run of characters, _ matches any one
\* character, any other character matches itself ignoring ASCII case.
RECURSIVE Like(_, _)
Like(pat, s) ==
    IF pat = <<>> THEN s = <<>>
    ELSE IF Head(pat) = "%"
         THEN Like(Tail(pat), s) \/ (s # <<>> /\ Like(pat, Tail(s)))
         ELSE /\ s # <<>>
              /\ (Head(pat) = "_" \/ ToLower(Head(pat)) = ToLower(Head(s)))
              /\ Like(Tail(pat), Tail(s))

\* the parameter f"%{topic}%"
LikeParam(topic) == <<"%">> \o topic \o <<"%">>

---------------------------------------------------------------------------
\* Inputs

Titles == {"Two Sum"}
Arrays == <<"A","r","r","a","y","s">>
DP == <<"D","P">>
Topics == {Arrays, DP}

Easy == <<"E","a","s","y">>
Medium == <<"M","e","d","i","u","m">>
Hard == <<"H","a","r","d">>
Enumerated == {Easy, Medium, Hard}
Difficulties == {<<"e","a","s","y">>, <<"P","R","O">>}

\* topic=None, the default of get_revision_sheet
NoTopic == <<"None">>
Filters == {NoTopic, <<>>, <<" ">>, <<"r","R">>, <<"_">>}

NoteTopics == {"Graphs", "graphs", "Recursion Tips"}
\* the note topic saved when calls of all four handlers are mixed
MixedNoteTopics == {"Graphs"}
Contents == {"c1", "c2"}
NoNote == "NoNote"

\* where a call can fail: opening the connection, executing a statement,
\* committing
WriteFails == {"none", "connect", "execute", "commit"}
ReadFails == {"none", "connect", "execute"}
StatsFails == {"none", "connect", "execute1", "execute2"}

Error == [status |-> "error", message |-> "msg"]

---------------------------------------------------------------------------
\* The statements

\* rowid of an INSERT into an AUTOINCREMENT table: one more than the largest
\* rowid the table ever held
MaxId(table) ==
    IF table = <<>> THEN 0
    ELSE CHOOSE m \in {table[i].id : i \in 1..Len(table)} :
             \A i \in 1..Len(table) : table[i].id <= m

Max2(a, b) == IF a >= b THEN a ELSE b

\* a rowid that does not advance past the first
NextIdStuck(table, s) == 1

NextId(table, s) == Max2(s, MaxId(table)) + 1

\* INSERT INTO problems (title, topic, difficulty) VALUES (?, ?, ?)
InsertProblem(table, s, title, topic, difficulty, day) ==
    Append(table, [id |-> NextId(table, s), title |-> title, topic |-> topic,
                   difficulty |-> difficulty, solve_date |-> day])

\* an insert that leaves an existing note as it is (ON CONFLICT DO NOTHING)
UpsertIgnore(table, topic, content) ==
    IF \E i \in 1..Len(table) : table[i].topic = topic
    THEN table
    ELSE Append(table, [topic |-> topic, content |-> content])

\* INSERT INTO notes ... ON CONFLICT(topic) DO UPDATE SET content=excluded.content
Upsert(table, topic, content) ==
    IF \E i \in 1..Len(table) : table[i].topic = topic
    THEN [i \in 1..Len(table) |->
             IF table[i].topic = topic
             THEN [table[i] EXCEPT !.content = content]
             ELSE table[i]]
    ELSE Append(table, [topic |-> topic, content |-> content])

\* a connection that keeps what it wrote without a commit
AfterCloseKeep(committed, image, didCommit) == image

\* "async with aiosqlite.connect(...)": leaving the block closes the
\* connection; a table holds the connection's image of it if db.commit()
\* succeeded and its committed rows otherwise (the open transaction is
\* rolled back)
AfterClose(committed, image, didCommit) ==
    IF didCommit THEN image ELSE committed

\* the WHERE clause of get_revision_sheet: "if topic:" is false for None
\* and for the empty string
Selected(table, topic) ==
    IF topic # NoTopic /\ topic # <<>>
    THEN {i \in 1..Len(table) : Like(LikeParam(topic), table[i].topic)}
    ELSE 1..Len(table)

\* ORDER BY solve_date DESC: the orders in which the selected rows can be
\* returned; rows of one solve_date come in an order SQL leaves open
Orderings(table, sel) ==
    {f \in [1..Cardinality(sel) -> sel] :
        /\ \A j, k \in 1..Cardinality(sel) : j # k => f[j] # f[k]
        /\ \A j, k \in 1..Cardinality(sel) :
              j < k => table[f[j]].solve_date >= table[f[k]].solve_date}

\* a grouping that keeps the enumerated difficulties only
GroupByEnumerated(table) ==
    [d \in {table[i].difficulty : i \in 1..Len(table)} \cap Enumerated |->
        Cardinality({i \in 1..Len(table) : table[i].difficulty = d})]

\* SELECT difficulty, COUNT(*) FROM problems GROUP BY difficulty
GroupByDifficulty(table) ==
    [d \in {table[i].difficulty : i \in 1..Len(table)} |->
        Cardinality({i \in 1..Len(table) : table[i].difficulty = d})]

\* a count of the groups instead of the rows
CountGroups(table) == Cardinality({table[i].difficulty : i \in 1..Len(table)})

\* SELECT COUNT(*) AS total FROM problems
CountTotal(table) == Len(table)

\* SUM(CASE WHEN solve_date = ? THEN 1 ELSE 0 END)
CountToday(table, day) ==
    Cardinality({i \in 1..Len(table) : table[i].solve_date = day})

---------------------------------------------------------------------------
\* The state after init_db() on a new database file

Init ==
    /\ problems = <<>>
    /\ seq = 0
    /\ notes = <<>>
    /\ today = 1
    /\ lastCall = [op |-> "none", failed |-> FALSE]
    /\ result = [none |-> TRUE]
    /\ lastSaved = [t \in NoteTopics |-> NoNote]
    /\ succeeded = 0
    /\ pc = [p \in Procs |-> "idle"]
    /\ call = [p \in Procs |-> [op |-> "none"]]
    /\ txn = [p \in Procs |-> <<>>]
    /\ writer = {}
    /\ part = [p \in Procs |-> <<>>]
    /\ ret = [p \in Procs |-> [none |-> TRUE]]

\* the date advances
Tick ==
    /\ today < MaxDay
    /\ today' = today + 1
    /\ UNCHANGED <<problems, seq, notes, seqVars, concVars>>

---------------------------------------------------------------------------
\* The handlers, called one after another

AddProblem(title, topic, difficulty, fail) ==
    /\ Len(problems) < MaxProblems
    /\ lastCall' = [op |-> "add_problem", failed |-> fail # "none"]
    /\ LET executed == fail \notin {"connect", "execute"}
           image == IF executed
                    THEN InsertProblem(problems, seq, title, topic,
                                       Capitalize(difficulty), today)
                    ELSE problems
           imageSeq == IF executed THEN NextId(problems, seq) ELSE seq
       IN  /\ problems' = AfterClose(problems, image, fail = "none")
           /\ seq' = AfterClose(seq, imageSeq, fail = "none")
           /\ IF fail = "none"
              THEN /\ result' = [status |-> "success", id |-> imageSeq,
                                 message |-> <<"Logged", title>>]
                   /\ succeeded' = succeeded + 1
              ELSE /\ result' = Error
                   /\ UNCHANGED succeeded
    /\ UNCHANGED <<notes, today, lastSaved, concVars>>

GetRevisionSheet(topic, fail) ==
    /\ lastCall' = [op |-> "get_revision_sheet", topic |-> topic,
                    failed |-> fail # "none"]
    /\ IF fail = "none"
       THEN \E f \in Orderings(problems, Selected(problems, topic)) :
               result' = [problems |-> [j \in DOMAIN f |-> problems[f[j]]]]
       ELSE result' = Error
    /\ UNCHANGED <<problems, seq, notes, today, lastSaved, succeeded, concVars>>

\* localDay: the date of datetime.now(), the server's local date
GetProgressStats(localDay, fail) ==
    /\ lastCall' = [op |-> "get_progress_stats", failed |-> fail # "none"]
    /\ IF fail = "none"
       THEN result' = [total_solved |-> CountTotal(problems),
                       solved_today |-> CountToday(problems, localDay),
                       breakdown |-> GroupByDifficulty(problems)]
       ELSE result' = Error
    /\ UNCHANGED <<problems, seq, notes, today, lastSaved, succeeded, concVars>>

SaveRevisionNote(topic, content, fail) ==
    /\ lastCall' = [op |-> "save_revision_note", topic |-> topic,
                    failed |-> fail # "none"]
    /\ LET image == IF fail \notin {"connect", "execute"}
                    THEN Upsert(notes, topic, content)
                    ELSE notes
       IN  notes' = AfterClose(notes, image, fail = "none")
    /\ IF fail = "none"
       THEN /\ lastSaved' = [lastSaved EXCEPT ![topic] = content]
            /\ result' = [status |-> "success",
                          message |-> <<"Notes updated for", topic>>]
       ELSE /\ result' = Error
            /\ UNCHANGED lastSaved
    /\ UNCHANGED <<problems, seq, today, succeeded, concVars>>

Next ==
    \/ \E title \in Titles, topic \in Topics, difficulty \in Difficulties,
          fail \in WriteFails : AddProblem(title, topic, difficulty, fail)
    \/ \E topic \in Filters, fail \in ReadFails : GetRevisionSheet(topic, fail)
    \/ \E localDay \in Days, fail \in StatsFails : GetProgressStats(localDay, fail)
    \/ \E topic \in MixedNoteTopics, content \in Contents, fail \in WriteFails :
          SaveRevisionNote(topic, content, fail)
    \/ Tick

Spec == Init /\ [][Next]_vars

\* save_revision_note called again and again, over all note topics
NextNotes ==
    \E topic \in NoteTopics, content \in Contents, fail \in WriteFails :
        SaveRevisionNote(topic, content, fail)

SpecNotes == Init /\ [][NextNotes]_vars

---------------------------------------------------------------------------
\* add_problem and get_progress_stats calls running concurrently.  Each call
\* has its own connection; a call advances by one awaited operation per
\* step, and steps of different calls interleave.

\* the handler is called
Call(p, c) ==
    /\ pc[p] = "idle"
    /\ pc' = [pc EXCEPT ![p] = "called"]
    /\ call' = [call EXCEPT ![p] = c]
    /\ UNCHANGED <<problems, seq, notes, today, seqVars, txn, writer, part, ret>>

\* aiosqlite.connect(DB_PATH)
Connect(p) ==
    /\ pc[p] = "called"
    /\ pc' = [pc EXCEPT ![p] = "connected"]
    /\ UNCHANGED <<problems, seq, notes, today, seqVars, call, txn, writer, part, ret>>

\* db.execute("INSERT ..."): opens the write transaction, which takes the
\* write lock of the WAL database and sees the latest committed rows; while
\* another connection holds the lock the statement waits
AddExecute(p) ==
    /\ pc[p] = "connected"
    /\ call[p].op = "add_problem"
    /\ writer = {}
    /\ writer' = {p}
    /\ txn' = [txn EXCEPT ![p] =
                 [table |-> InsertProblem(problems, seq, call[p].title,
                                          call[p].topic,
                                          Capitalize(call[p].difficulty), today),
                  seq |-> NextId(problems, seq)]]
    /\ pc' = [pc EXCEPT ![p] = "inserted"]
    /\ UNCHANGED <<problems, seq, notes, today, seqVars, call, part, ret>>

\* a handler that returns success without committing
AddReturnUncommitted(p) ==
    /\ pc[p] = "inserted"
    /\ writer' = {}
    /\ ret' = [ret EXCEPT ![p] = [status |-> "success", id |-> txn[p].seq,
                                  message |-> <<"Logged", call[p].title>>]]
    /\ txn' = [txn EXCEPT ![p] = <<>>]
    /\ pc' = [pc EXCEPT ![p] = "done"]
    /\ UNCHANGED <<problems, seq, notes, today, seqVars, call, part>>

\* db.commit(), then the return of cursor.lastrowid
AddCommit(p) ==
    /\ pc[p] = "inserted"
    /\ problems' = txn[p].table
    /\ seq' = txn[p].seq
    /\ writer' = {}
    /\ ret' = [ret EXCEPT ![p] = [status |-> "success", id |-> txn[p].seq,
                                  message |-> <<"Logged", call[p].title>>]]
    /\ txn' = [txn EXCEPT ![p] = <<>>]
    /\ pc' = [pc EXCEPT ![p] = "done"]
    /\ UNCHANGED <<notes, today, seqVars, call, part>>

\* first query of get_progress_stats, read to its end by fetchall()
StatsQuery1(p) ==
    /\ pc[p] = "connected"
    /\ call[p].op = "get_progress_stats"
    /\ part' = [part EXCEPT ![p] = GroupByDifficulty(problems)]
    /\ pc' = [pc EXCEPT ![p] = "queried"]
    /\ UNCHANGED <<problems, seq, notes, today, seqVars, call, txn, writer, ret>>

\* second query of get_progress_stats, and the return
StatsQuery2(p, localDay) ==
    /\ pc[p] = "queried"
    /\ ret' = [ret EXCEPT ![p] = [total_solved |-> CountTotal(problems),
                                  solved_today |-> CountToday(problems, localDay),
                                  breakdown |-> part[p]]]
    /\ part' = [part EXCEPT ![p] = <<>>]
    /\ pc' = [pc EXCEPT ![p] = "done"]
    /\ UNCHANGED <<problems, seq, notes, today, seqVars, call, txn, writer>>

\* the awaited operation raises (the store is unreachable, or the wait for
\* the write lock times out): "except Exception" returns the error, and the
\* connection closes, which rolls back its open transaction
Fail(p) ==
    /\ pc[p] \in {"called", "connected", "inserted", "queried"}
    /\ ret' = [ret EXCEPT ![p] = Error]
    /\ writer' = writer \ {p}
    /\ txn' = [txn EXCEPT ![p] = <<>>]
    /\ part' = [part EXCEPT ![p] = <<>>]
    /\ pc' = [pc EXCEPT ![p] = "done"]
    /\ UNCHANGED <<problems, seq, notes, today, seqVars, call>>

AddCalls ==
    [op : {"add_problem"}, title : Titles, topic : Topics,
     difficulty : Difficulties]
StatsCalls == [op : {"get_progress_stats"}]

NextConc ==
    \/ \E p \in Procs, c \in AddCalls \cup StatsCalls : Call(p, c)
    \/ \E p \in Procs : Connect(p)
    \/ \E p \in Procs : AddExecute(p)
    \/ \E p \in Procs : AddCommit(p)
    \/ \E p \in Procs : StatsQuery1(p)
    \/ \E p \in Procs, localDay \in Days : StatsQuery2(p, localDay)
    \/ \E p \in Procs : Fail(p)
    \/ Tick

SpecConc == Init /\ [][NextConc]_vars

---------------------------------------------------------------------------
\* Properties

SheetReturned == lastCall.op = "get_revision_sheet" /\ ~lastCall.failed
StatsReturned == lastCall.op = "get_progress_stats" /\ ~lastCall.failed

\* f occurs in s as a substring, ignoring case
Contains(s, f) ==
    \E i \in 1..(Len(s) - Len(f) + 1) :
        \A j \in 1..Len(f) : ToLower(s[i + j - 1]) = ToLower(f[j])

\* f is a text of spaces only
IsBlank(f) == f # NoTopic /\ \A j \in 1..Len(f) : f[j] = " "

RowsOf(list) == {list[j] : j \in 1..Len(list)}

RECURSIVE SumCounts(_)
SumCounts(f) ==
    IF DOMAIN f = {} THEN 0
    ELSE LET d == CHOOSE x \in DOMAIN f : TRUE
         IN  f[d] + SumCounts([x \in DOMAIN f \ {d} |-> f[x]])

\* C1: a get_progress_stats that returns its summary reports total_solved
\* equal to the number of rows of problems, which is the number of
\* add_problem calls that returned success.
C1_TotalIsRowCount ==
    StatsReturned =>
        /\ result.total_solved = Len(problems)
        /\ Len(problems) = succeeded

C1_Witness ==
    /\ StatsReturned
    /\ result.total_solved >= 2
    /\ \E i, j \in 1..Len(problems) :
          problems[i].difficulty = problems[j].difficulty /\ i # j

\* C2: notes holds at most one row per topic; the row of a topic holds the
\* content of the last successful save_revision_note for exactly that topic,
\* and a topic never saved has no row.
C2_OneNotePerTopic ==
    \A t \in NoteTopics :
        LET rows == {i \in 1..Len(notes) : notes[i].topic = t}
        IN  /\ Cardinality(rows) <= 1
            /\ IF lastSaved[t] = NoNote
               THEN rows = {}
               ELSE \E i \in rows : notes[i].content = lastSaved[t]

\* a save that met the row of its topic while another topic has a row too
C2_Witness ==
    /\ lastCall.op = "save_revision_note"
    /\ ~lastCall.failed
    /\ Len(notes) = 2
    /\ notes[1].topic = lastCall.topic
    /\ notes[1].content # notes[2].content

\* C3: a step never removes a row of problems nor changes the id of a row,
\* every row it adds has an id greater than the id of every row present
\* before, and a successful add_problem returns the id of the row it added.
C3_IdsGrow ==
    [][/\ Len(problems') >= Len(problems)
       /\ \A i \in 1..Len(problems) : problems'[i].id = problems[i].id
       /\ \A j \in (Len(problems) + 1)..Len(problems') :
             \A i \in 1..Len(problems) : problems'[j].id > problems[i].id
       /\ (lastCall'.op = "add_problem" /\ ~lastCall'.failed /\ today' = today)
             => /\ Len(problems') = Len(problems) + 1
                /\ result'.id = problems'[Len(problems')].id
                /\ \A i \in 1..Len(problems) : result'.id > problems[i].id]_vars

C3_Witness ==
    /\ lastCall.op = "add_problem"
    /\ ~lastCall.failed
    /\ Len(problems) >= 2
    /\ result.id = problems[Len(problems)].id

\* C4: a call during which the store fails returns status 'error' with a
\* message, and leaves problems and notes as they were.  (Every step that
\* keeps the date is a call of a handler.)
C4_FailureLeavesTables ==
    [][(lastCall'.failed /\ today' = today)
          => /\ result'.status = "error"
             /\ "message" \in DOMAIN result'
             /\ problems' = problems
             /\ notes' = notes]_vars

C4_Witness ==
    /\ lastCall.failed
    /\ lastCall.op = "add_problem"
    /\ result.status = "error"
    /\ Len(problems) >= 1
    /\ Len(notes) >= 1

\* C5: the list of get_revision_sheet is in descending solve_date order, and
\* rows of one solve_date are in descending id order.
C5_DescendingDateThenId ==
    SheetReturned =>
        \A j, k \in 1..Len(result.problems) :
            j < k =>
                \/ result.problems[j].solve_date > result.problems[k].solve_date
                \/ /\ result.problems[j].solve_date = result.problems[k].solve_date
                   /\ result.problems[j].id > result.problems[k].id

\* C6: with a non-empty topic filter, get_revision_sheet returns exactly the
\* rows whose topic contains the filter as a substring, ignoring case.
C6_ExactlyTheSubstringMatches ==
    (SheetReturned /\ lastCall.topic # NoTopic /\ lastCall.topic # <<>>) =>
        RowsOf(result.problems) =
            {problems[i] : i \in {k \in 1..Len(problems) :
                                     Contains(problems[k].topic, lastCall.topic)}}

\* C7: with a topic filter that is empty or made of whitespace only,
\* get_revision_sheet returns the rows it returns without a filter, all of
\* them, and no error.
C7_BlankFilterIsNoFilter ==
    (lastCall.op = "get_revision_sheet" /\ ~lastCall.failed
        /\ IsBlank(lastCall.topic)) =>
        /\ "problems" \in DOMAIN result
        /\ RowsOf(result.problems) = RowsOf(problems)

AllDone == \A p \in Procs : pc[p] = "done"
Adds == {p \in Procs : call[p].op = "add_problem"}
AddsSucceeded == {p \in Adds : pc[p] = "done" /\ ret[p].status = "success"}

\* C9: once all concurrent calls have finished, problems holds exactly one
\* row for each add_problem that returned success, with the values of that
\* call, and no other row; every other add_problem returned status 'error'.
C9_NoLostWrite ==
    AllDone =>
        /\ \A p \in AddsSucceeded :
              LET rows == {i \in 1..Len(problems) : problems[i].id = ret[p].id}
              IN  /\ Cardinality(rows) = 1
                  /\ \A i \in rows :
                        /\ problems[i].title = call[p].title
                        /\ problems[i].topic = call[p].topic
                        /\ problems[i].difficulty = Capitalize(call[p].difficulty)
        /\ \A p, q \in AddsSucceeded : p # q => ret[p].id # ret[q].id
        /\ Len(problems) = Cardinality(AddsSucceeded)
        /\ \A p \in Adds \ AddsSucceeded : ret[p].status = "error"

\* all calls finished: two add_problem calls succeeded
C9_Witness ==
    /\ AllDone
    /\ Cardinality(AddsSucceeded) >= 2

\* C10: the breakdown returned by a concurrent get_progress_stats sums to
\* the total_solved it returns.
C10_BreakdownSumsToTotal ==
    \A p \in Procs :
        (pc[p] = "done" /\ call[p].op = "get_progress_stats"
            /\ "breakdown" \in DOMAIN ret[p]) =>
            SumCounts(ret[p].breakdown) = ret[p].total_solved

====
